---------------------------- MODULE Spec2Model ----------------------------
(***************************************************************************)
(* A model of script.js, the Sudoku game: the backtracking solution        *)
(* generator, the puzzle carver, the row/column/box constraint checks and  *)
(* the session state with the handlers that change it.                     *)
(*                                                                         *)
(* Three specifications share the variables:                               *)
(*   SpecNewGame  startNewGame step by step: generateSolution (fillGrid    *)
(*                with its recursion as an explicit stack), then           *)
(*                generatePuzzle and the session fields;                   *)
(*   SpecEngine   isValidPlacement and the candidate computations applied  *)
(*                to grids drawn from a bounded family;                    *)
(*   Spec         a session after page load, driven by the event handlers. *)
(***************************************************************************)
EXTENDS Integers, Sequences, FiniteSets

VARIABLES
    grid,            \* generateSolution's local grid (fillGrid's argument)
    stack,           \* fillGrid's active calls, innermost last
    ret,             \* the value the last finished fillGrid call returned
    pc,              \* where control is
    rnd,             \* the state of Math.random
    difficultySelect,\* difficultySelect.value
    puzzle,          \* gameState.puzzle
    solution,        \* gameState.solution
    userValues,      \* gameState.userValues
    possibleNumbers, \* gameState.possibleNumbers, index -> set of notes
    selectedCell,    \* gameState.selectedCell
    difficulty,      \* gameState.difficulty
    isCompleted,     \* gameState.isCompleted
    showErrors,      \* gameState.showErrors
    statusText,      \* statusElement.textContent
    elapsedTime,     \* gameState.elapsedTime, in timer periods
    timerInterval,   \* whether timerInterval holds a running interval
    probe,           \* SpecEngine: the last query and what the code answered
    storage          \* the item of localStorage under STORAGE_KEY, as parsed

vars == <<grid, stack, ret, pc, rnd, difficultySelect, puzzle, solution,
          userValues, possibleNumbers, selectedCell, difficulty, isCompleted,
          showErrors, statusText, elapsedTime, timerInterval, probe, storage>>

genVars == <<grid, stack, ret, rnd>>
sessionVars == <<puzzle, solution, userValues, possibleNumbers, selectedCell,
                 difficulty, isCompleted, showErrors, statusText, elapsedTime,
                 timerInterval>>

\* What a cell edit can change; every edit operator below states all of it.
editVars == <<userValues, possibleNumbers, isCompleted, showErrors, statusText,
              timerInterval>>

-----------------------------------------------------------------------------
(* Bounds of the model.                                                    *)

\* SpecNewGame: Math.random starts in one of the states 0..NumSeeds-1.
NumSeeds == 6

\* Spec: the digit keys the player presses are the first NumKeys of KeyOrder.
NumKeys == 1

\* Spec: the timer periods counted in elapsedTime are at most MaxElapsed.
MaxElapsed == 1

\* SpecEngine: at most MaxPuts cells are written into the grid under test.
MaxPuts == 2

-----------------------------------------------------------------------------
(* Values.                                                                 *)

null == -1

Rows == 0..8
Cols == 0..8
Indices == 0..80
Digits == 1..9

EmptyGrid == [r \in Rows |-> [c \in Cols |-> 0]]

EmptyNotes == [i \in Indices |-> {}]

DIFFICULTY_LEVELS ==
    [low |-> [cellsToRemove |-> 30], medium |-> [cellsToRemove |-> 45],
     high |-> [cellsToRemove |-> 55]]

DifficultyKeys == {"low", "medium", "high"}

RowOf(index) == index \div 9
ColOf(index) == index % 9

-----------------------------------------------------------------------------
(* The constraint engine.                                                  *)

\* findEmptyCell: the first cell holding 0 in row-major order, or null.
findEmptyCell(g) ==
    LET empty == {i \in Indices : g[RowOf(i)][ColOf(i)] = 0}
    IN  IF empty = {} THEN null
        ELSE CHOOSE i \in empty : \A k \in empty : i <= k

\* A plausible slip: the box scan starts at the cell instead of the box origin.
isValidPlacementNoBoxOrigin(g, row, col, num) ==
    /\ \A c \in 0..8 : g[row][c] # num
    /\ \A r \in 0..8 : g[r][col] # num
    /\ \A r \in row..(IF row + 2 > 8 THEN 8 ELSE row + 2) :
          \A c \in col..(IF col + 2 > 8 THEN 8 ELSE col + 2) : g[r][c] # num

\* A plausible slip: the row test is inverted, so a cell of the row that
\* differs from num rejects the placement.
isValidPlacementInvertedRow(g, row, col, num) ==
    LET boxRow == (row \div 3) * 3
        boxCol == (col \div 3) * 3
    IN  /\ \A c \in 0..8 : g[row][c] = num
        /\ \A r \in 0..8 : g[r][col] # num
        /\ \A r \in boxRow..(boxRow + 2) :
              \A c \in boxCol..(boxCol + 2) : g[r][c] # num

isValidPlacement(g, row, col, num) ==
    LET boxRow == (row \div 3) * 3
        boxCol == (col \div 3) * 3
    IN  /\ \A c \in 0..8 : g[row][c] # num
        /\ \A r \in 0..8 : g[r][col] # num
        /\ \A r \in boxRow..(boxRow + 2) :
              \A c \in boxCol..(boxCol + 2) : g[r][c] # num

-----------------------------------------------------------------------------
(* Math.random and shuffleArray.                                           *)

\* Math.random() as a generator with a 16-bit state: the next state, and the
\* number Math.floor(Math.random() * n) it yields.
nextRandom(r) == (r * 25173 + 13849) % 65536
randomBelow(r, n) == (r * n) \div 65536

\* The iterations i, i - 1, ..., last of the loop of shuffleArray (indices as
\* in the code, from 0), on a copy arr of the array.
RECURSIVE fisherYatesFrom(_, _, _, _)
fisherYatesFrom(arr, i, last, r) ==
    IF i < last THEN [arr |-> arr, rnd |-> r]
    ELSE LET r2 == nextRandom(r)
             j == randomBelow(r2, i + 1)
             swapped == [arr EXCEPT ![i + 1] = arr[j + 1], ![j + 1] = arr[i + 1]]
         IN  \* the pass goes on from the values of swapped and r2
             CHOOSE res \in {fisherYatesFrom(s, i - 1, last, q) : s \in {swapped}, q \in {r2}} :
                 TRUE

\* The loop is evaluated a span of iterations at a time, which keeps the
\* evaluation of the 81 positions' pass shallow.
SpanLen == 9

\* The Fisher-Yates pass of shuffleArray from index i down to 1.
RECURSIVE fisherYates(_, _, _)
fisherYates(arr, i, r) ==
    IF i <= 0 THEN [arr |-> arr, rnd |-> r]
    ELSE LET last == IF i > SpanLen THEN i - SpanLen + 1 ELSE 1
         IN  CHOOSE res \in {fisherYates(span.arr, last - 1, span.rnd) :
                                span \in {fisherYatesFrom(arr, i, last, r)}} : TRUE

shuffleArray(array, r) == fisherYates(array, Len(array) - 1, r)


-----------------------------------------------------------------------------
(* generatePuzzle.                                                         *)

\* The positions 0..80 in order, as the loop at lines 187-190 builds them.
allPositions == [k \in 1..81 |-> k - 1]

\* A plausible slip: the loop stops one cell late (removed > cellsToRemove).
removeCellsOneMore(puz, positions, k, removed, cellsToRemove) ==
    LET zeroed == {positions[q] : q \in {q \in k..Len(positions) :
                                            removed + (q - k) <= cellsToRemove}}
    IN  [row \in Rows |-> [col \in Cols |->
            IF (row * 9 + col) \in zeroed THEN 0 ELSE puz[row][col]]]

\* The removal loop, lines 194-201, from the state it has when positions[k]
\* is the position it is at and removed the count of cells zeroed so far.
\* Every iteration zeroes a cell and counts it, so the iteration at
\* positions[q] starts with removed + (q - k) cells counted and runs when
\* that is below cellsToRemove; zeroed is the set of the positions of the
\* iterations that run.
removeCells(puz, positions, k, removed, cellsToRemove) ==
    LET zeroed == {positions[q] : q \in {q \in k..Len(positions) :
                                            removed + (q - k) < cellsToRemove}}
    IN  [row \in Rows |-> [col \in Cols |->
            IF (row * 9 + col) \in zeroed THEN 0 ELSE puz[row][col]]]

\* generatePuzzle(solution, difficulty) with Math.random in state r: the
\* puzzle, and the state Math.random is left in.
generatePuzzle(sol, diff, r) ==
    LET cellsToRemove == DIFFICULTY_LEVELS[diff].cellsToRemove
        shuffled == shuffleArray(allPositions, r)
    IN  [puzzle |-> removeCells(sol, shuffled.arr, 1, 0, cellsToRemove),
         rnd |-> shuffled.rnd]

-----------------------------------------------------------------------------
(* startNewGame, step by step (SpecNewGame).                               *)
(* pc: "call"  a fillGrid call is entered;                                 *)
(*     "loop"  the innermost call is at the head of its for loop;          *)
(*     "ret"   a call has returned ret to its caller;                      *)
(*     "done"  generateSolution has returned grid;                         *)
(*     "play"  startNewGame has finished.                                  *)

\* A frame of fillGrid: the empty cell, the shuffled numbers, and i, the
\* place in numbers of the number the for loop is at.
Frame(row, col, numbers, i) ==
    [row |-> row, col |-> col, numbers |-> numbers, i |-> i]

Top == stack[Len(stack)]
Pop == SubSeq(stack, 1, Len(stack) - 1)
ReplaceTop(f) == [stack EXCEPT ![Len(stack)] = f]

\* The state of gameState before any game: lines 15-26.
InitialGameState ==
    /\ puzzle = <<>>
    /\ solution = <<>>
    /\ userValues = <<>>
    /\ possibleNumbers = <<>>
    /\ selectedCell = null
    /\ difficulty = "low"
    /\ isCompleted = FALSE
    /\ showErrors = FALSE
    /\ statusText = ""
    /\ elapsedTime = 0
    /\ timerInterval = FALSE

InitNewGame ==
    /\ pc = "call"
    /\ grid = EmptyGrid
    /\ stack = <<>>
    /\ ret = FALSE
    /\ rnd \in 0..(NumSeeds - 1)
    /\ difficultySelect \in DifficultyKeys
    /\ InitialGameState
    /\ probe = null
    /\ storage = null

\* fillGrid is entered: lines 101-105.
FillGridCall ==
    /\ pc = "call"
    /\ LET emptyCell == findEmptyCell(grid)
       IN  IF emptyCell = null
           THEN /\ ret' = TRUE
                /\ pc' = "ret"
                /\ UNCHANGED <<stack, rnd>>
           ELSE LET shuffled == shuffleArray(<<1, 2, 3, 4, 5, 6, 7, 8, 9>>, rnd)
                IN  /\ stack' = Append(stack, Frame(RowOf(emptyCell), ColOf(emptyCell),
                                                    shuffled.arr, 1))
                    /\ rnd' = shuffled.rnd
                    /\ pc' = "loop"
                    /\ UNCHANGED ret
    /\ UNCHANGED <<grid, difficultySelect, sessionVars, probe, storage>>

\* One pass of the for loop of the innermost call: lines 107-114.
FillGridLoop ==
    /\ pc = "loop"
    /\ LET f == Top
       IN  IF f.i > Len(f.numbers)
           THEN \* the loop is over: return false
                /\ stack' = Pop
                /\ ret' = FALSE
                /\ pc' = "ret"
                /\ UNCHANGED grid
           ELSE IF isValidPlacement(grid, f.row, f.col, f.numbers[f.i])
           THEN \* place the number and call fillGrid
                /\ grid' = [grid EXCEPT ![f.row][f.col] = f.numbers[f.i]]
                /\ pc' = "call"
                /\ UNCHANGED <<stack, ret>>
           ELSE \* the next number
                /\ stack' = ReplaceTop([f EXCEPT !.i = f.i + 1])
                /\ UNCHANGED <<grid, ret, pc>>
    /\ UNCHANGED <<rnd, difficultySelect, sessionVars, probe, storage>>

\* A call has returned: to generateSolution (line 91), or to the call that
\* made it (lines 110-111).
FillGridReturn ==
    /\ pc = "ret"
    /\ IF stack = <<>>
       THEN /\ pc' = "done"
            /\ UNCHANGED <<grid, stack, ret>>
       ELSE IF ret
       THEN /\ stack' = Pop
            /\ UNCHANGED <<grid, ret, pc>>
       ELSE LET f == Top
            IN  /\ grid' = [grid EXCEPT ![f.row][f.col] = 0]
                /\ stack' = ReplaceTop([f EXCEPT !.i = f.i + 1])
                /\ pc' = "loop"
                /\ UNCHANGED ret
    /\ UNCHANGED <<rnd, difficultySelect, sessionVars, probe, storage>>

\* The rest of startNewGame once generateSolution has returned: lines 210-223.
FinishNewGame ==
    /\ pc = "done"
    /\ LET carved == generatePuzzle(grid, difficultySelect, rnd)
       IN  /\ solution' = grid
           /\ puzzle' = carved.puzzle
           /\ userValues' = carved.puzzle
           /\ rnd' = carved.rnd
    /\ possibleNumbers' = EmptyNotes
    /\ selectedCell' = null
    /\ difficulty' = difficultySelect
    /\ isCompleted' = FALSE
    /\ showErrors' = FALSE
    /\ statusText' = ""
    /\ elapsedTime' = 0
    /\ timerInterval' = TRUE
    /\ pc' = "play"
    /\ UNCHANGED <<grid, stack, ret, difficultySelect, probe, storage>>

NextNewGame == FillGridCall \/ FillGridLoop \/ FillGridReturn \/ FinishNewGame

SpecNewGame == InitNewGame /\ [][NextNewGame]_vars

\* generateSolution runs to its end without yielding: the handler is one
\* synchronous call, so a step of fillGrid that can be taken is taken.
FairSpecNewGame ==
    /\ InitNewGame
    /\ [][NextNewGame]_vars
    /\ WF_vars(FillGridCall \/ FillGridLoop \/ FillGridReturn)

-----------------------------------------------------------------------------
(* The candidate computations and the unit counts, as functions of the     *)
(* value grid they read (gameState.userValues in the code).                *)

\* A plausible slip: the column pass is missing.
autoFillPossibleNoColumn(values, row, col) ==
    LET boxRow == (row \div 3) * 3
        boxCol == (col \div 3) * 3
        afterRow == Digits \ {values[row][c] : c \in 0..8}
    IN  afterRow \ {values[r][c] : r \in boxRow..(boxRow + 2), c \in boxCol..(boxCol + 2)}

\* The set `possible` of autoFillPossibleNumbers: lines 609-628.
autoFillPossible(values, row, col) ==
    LET boxRow == (row \div 3) * 3
        boxCol == (col \div 3) * 3
        afterRow == Digits \ {values[row][c] : c \in 0..8}
        afterCol == afterRow \ {values[r][col] : r \in 0..8}
    IN  afterCol \ {values[r][c] : r \in boxRow..(boxRow + 2), c \in boxCol..(boxCol + 2)}

\* The set `possible` of findFinalNumber: lines 444-463.
findFinalPossible(values, row, col) ==
    LET boxRow == (row \div 3) * 3
        boxCol == (col \div 3) * 3
        afterRow == Digits \ {values[row][c] : c \in 0..8}
        afterCol == afterRow \ {values[r][col] : r \in 0..8}
    IN  afterCol \ {values[r][c] : r \in boxRow..(boxRow + 2), c \in boxCol..(boxCol + 2)}

\* A plausible slip: only the row is scanned, and the first number that
\* remains is returned.
findFinalNumberFirstOfRow(values, row, col) ==
    LET possible == Digits \ {values[row][c] : c \in 0..8}
    IN  IF possible # {}
        THEN CHOOSE n \in possible : \A m \in possible : n <= m
        ELSE null

findFinalNumber(values, row, col) ==
    LET possible == findFinalPossible(values, row, col)
    IN  IF Cardinality(possible) = 1
        THEN CHOOSE n \in possible : TRUE
        ELSE null

countEmptyCellsInRow(values, row) ==
    Cardinality({col \in 0..8 : values[row][col] = 0})

countEmptyCellsInColumn(values, col) ==
    Cardinality({row \in 0..8 : values[row][col] = 0})

countEmptyCellsInSquare(values, row, col) ==
    LET boxRow == (row \div 3) * 3
        boxCol == (col \div 3) * 3
    IN  Cardinality({rc \in (boxRow..(boxRow + 2)) \X (boxCol..(boxCol + 2)) :
                        values[rc[1]][rc[2]] = 0})

\* A plausible slip: an empty cell counts as an error.
checkBoardStateEmptyIsError(values, sol) ==
    [allFilled |-> \A row \in 0..8, col \in 0..8 : values[row][col] # 0,
     allCorrect |-> \A row \in 0..8, col \in 0..8 : values[row][col] = sol[row][col],
     hasErrors |-> \E row \in 0..8, col \in 0..8 : values[row][col] # sol[row][col]]

\* checkBoardState: lines 639-660.
checkBoardState(values, sol) ==
    [allFilled |-> \A row \in 0..8, col \in 0..8 : values[row][col] # 0,
     allCorrect |-> \A row \in 0..8, col \in 0..8 : values[row][col] = sol[row][col],
     hasErrors |-> \E row \in 0..8, col \in 0..8 :
                      values[row][col] # sol[row][col] /\ values[row][col] # 0]

-----------------------------------------------------------------------------
(* Outcomes of the generator used where a finished game is the start.      *)

\* A grid generateSolution can return (it is reached when every shuffle
\* puts this grid's number first).
SampleSolution ==
    [r \in Rows |-> [c \in Cols |-> ((3 * r + (r \div 3) + c) % 9) + 1]]

\* An order shuffleArray can leave the 81 positions in.
SamplePositions ==
    <<69, 73, 4, 79, 68, 70, 33, 56, 77, 75, 34, 71, 15, 0, 66, 10, 61, 48,
      51, 78, 65, 50, 59, 62, 24, 80, 52, 36, 41, 30, 11, 16, 57, 8, 5, 64,
      27, 54, 28, 1, 35, 25, 72, 63, 47, 20, 31, 18, 39, 74, 44, 58, 53, 21,
      29, 3, 45, 2, 17, 67, 38, 12, 55, 13, 32, 42, 9, 6, 49, 22, 37, 26,
      40, 43, 23, 46, 7, 19, 60, 14, 76>>

\* The puzzle generatePuzzle carves from SampleSolution under that order.
SamplePuzzle(diff) ==
    removeCells(SampleSolution, SamplePositions, 1, 0,
                DIFFICULTY_LEVELS[diff].cellsToRemove)

-----------------------------------------------------------------------------
(* SpecEngine: the constraint engine applied to a bounded family of grids. *)
(* grid is the grid under test; it starts empty or as a carved puzzle and  *)
(* has at most MaxPuts values of EnginePutValues written into the cells of *)
(* EnginePutCells. A query applies the code to one cell.                   *)

EnginePutCells == {0, 4, 10, 36, 40, 80}

EnginePutValues == {1, 2}

NoQuery(puts) ==
    [puts |-> puts, row |-> null, col |-> null, valid |-> {}, autoFill |-> {},
     finalPossible |-> {}, final |-> null, emptyInRow |-> 0, emptyInColumn |-> 0,
     emptyInSquare |-> 0]

InitEngine ==
    /\ pc = "engine"
    /\ grid \in {EmptyGrid, SamplePuzzle("high")}
    /\ probe = NoQuery(0)
    /\ stack = <<>>
    /\ ret = FALSE
    /\ rnd = 0
    /\ difficultySelect = "low"
    /\ InitialGameState
    /\ storage = null

\* A value is written into the grid under test.
EnginePut(index, v) ==
    /\ pc = "engine"
    /\ probe.puts < MaxPuts
    /\ grid' = [grid EXCEPT ![RowOf(index)][ColOf(index)] = v]
    /\ probe' = NoQuery(probe.puts + 1)
    /\ UNCHANGED <<stack, ret, pc, rnd, difficultySelect, sessionVars, storage>>

\* The code's answers for the cell (row, col) of the grid under test, asked
\* of a grid as the last put (or the start) left it.
EngineQuery(row, col) ==
    /\ pc = "engine"
    /\ probe.row = null
    /\ probe' = [puts |-> probe.puts, row |-> row, col |-> col,
                 valid |-> {num \in Digits : isValidPlacement(grid, row, col, num)},
                 autoFill |-> autoFillPossible(grid, row, col),
                 finalPossible |-> findFinalPossible(grid, row, col),
                 final |-> findFinalNumber(grid, row, col),
                 emptyInRow |-> countEmptyCellsInRow(grid, row),
                 emptyInColumn |-> countEmptyCellsInColumn(grid, col),
                 emptyInSquare |-> countEmptyCellsInSquare(grid, row, col)]
    /\ UNCHANGED <<grid, stack, ret, pc, rnd, difficultySelect, sessionVars, storage>>

NextEngine ==
    \/ \E index \in EnginePutCells, v \in EnginePutValues : EnginePut(index, v)
    \/ \E row \in Rows, col \in Cols : EngineQuery(row, col)

SpecEngine == InitEngine /\ [][NextEngine]_vars

-----------------------------------------------------------------------------
(* The session's transitions, as the handlers make them. Each of the       *)
(* operators below states userValues', possibleNumbers', isCompleted',     *)
(* showErrors', statusText' and timerInterval' (editVars).                 *)

IsInitial(index) == puzzle[RowOf(index)][ColOf(index)] # 0

\* A plausible slip: the errors are shown after every set value, filled
\* board or not.
checkCompletionAlwaysShows(values) ==
    LET state == checkBoardState(values, solution)
    IN  /\ showErrors' = TRUE
        /\ IF state.allFilled
           THEN /\ isCompleted' = (isCompleted \/ state.allCorrect)
                /\ timerInterval' = (timerInterval /\ ~state.allCorrect)
                /\ statusText' = IF state.allCorrect THEN "Completed" ELSE "Incorrect"
           ELSE UNCHANGED <<isCompleted, statusText, timerInterval>>

\* A plausible slip: the errors are shown only once the board is solved.
checkCompletionShowsOnlySolved(values) ==
    LET state == checkBoardState(values, solution)
    IN  IF state.allFilled /\ state.allCorrect
        THEN /\ showErrors' = TRUE
             /\ isCompleted' = TRUE
             /\ timerInterval' = FALSE
             /\ statusText' = "Completed"
        ELSE IF state.allFilled
        THEN /\ statusText' = "Incorrect"
             /\ UNCHANGED <<showErrors, isCompleted, timerInterval>>
        ELSE UNCHANGED <<showErrors, isCompleted, statusText, timerInterval>>

\* A plausible slip: a solved board is reported but the session is not
\* marked completed.
checkCompletionForgetsFlag(values) ==
    LET state == checkBoardState(values, solution)
    IN  IF state.allFilled
        THEN /\ showErrors' = TRUE
             /\ UNCHANGED <<isCompleted, timerInterval>>
             /\ statusText' = IF state.allCorrect THEN "Completed" ELSE "Incorrect"
        ELSE UNCHANGED <<showErrors, isCompleted, statusText, timerInterval>>

\* A plausible slip: the board counts as correct once it is filled.
checkCompletionFilledIsCorrect(values) ==
    LET state == checkBoardState(values, solution)
    IN  IF state.allFilled
        THEN /\ showErrors' = TRUE
             /\ isCompleted' = TRUE
             /\ timerInterval' = FALSE
             /\ statusText' = "Completed"
        ELSE UNCHANGED <<showErrors, isCompleted, statusText, timerInterval>>

\* checkCompletion, reading the board `values` setFinalValue has just
\* written: lines 665-684.
checkCompletion(values) ==
    LET state == checkBoardState(values, solution)
    IN  IF state.allFilled
        THEN /\ showErrors' = TRUE
             /\ IF state.allCorrect
                THEN /\ isCompleted' = TRUE
                     /\ timerInterval' = FALSE
                     /\ statusText' = "Completed"
                ELSE /\ UNCHANGED <<isCompleted, timerInterval>>
                     /\ statusText' = "Incorrect"
        ELSE UNCHANGED <<showErrors, isCompleted, statusText, timerInterval>>

\* A plausible slip: the notes of the cell are kept.
setFinalValueKeepsNotes(index, num) ==
    LET values == [userValues EXCEPT ![RowOf(index)][ColOf(index)] = num]
    IN  /\ userValues' = values
        /\ UNCHANGED possibleNumbers
        /\ checkCompletion(values)

\* A plausible slip: the number is also struck from the notes of the cells
\* of the same row, column and box.
setFinalValuePrunesPeers(index, num) ==
    LET values == [userValues EXCEPT ![RowOf(index)][ColOf(index)] = num]
        isPeer(j) == \/ RowOf(j) = RowOf(index)
                     \/ ColOf(j) = ColOf(index)
                     \/ /\ RowOf(j) \div 3 = RowOf(index) \div 3
                        /\ ColOf(j) \div 3 = ColOf(index) \div 3
    IN  /\ userValues' = values
        /\ possibleNumbers' =
              [j \in Indices |->
                  IF j = index THEN {}
                  ELSE IF isPeer(j) THEN possibleNumbers[j] \ {num}
                  ELSE possibleNumbers[j]]
        /\ checkCompletion(values)

\* setFinalValue: lines 569-578.
setFinalValue(index, num) ==
    LET values == [userValues EXCEPT ![RowOf(index)][ColOf(index)] = num]
    IN  /\ userValues' = values
        /\ possibleNumbers' = [possibleNumbers EXCEPT ![index] = {}]
        /\ checkCompletion(values)

\* A plausible slip: the value of the cell is not cleared.
togglePossibleNumberKeepsValue(index, num) ==
    /\ possibleNumbers' =
          [possibleNumbers EXCEPT ![index] =
              IF num \in @ THEN @ \ {num} ELSE @ \cup {num}]
    /\ UNCHANGED <<userValues, isCompleted, showErrors, statusText, timerInterval>>

\* togglePossibleNumber: lines 546-562.
togglePossibleNumber(index, num) ==
    /\ userValues' = IF userValues[RowOf(index)][ColOf(index)] # 0
                     THEN [userValues EXCEPT ![RowOf(index)][ColOf(index)] = 0]
                     ELSE userValues
    /\ possibleNumbers' =
          [possibleNumbers EXCEPT ![index] =
              IF num \in @ THEN @ \ {num} ELSE @ \cup {num}]
    /\ UNCHANGED <<isCompleted, showErrors, statusText, timerInterval>>

\* A plausible slip: the test for a clue cell is missing.
clearCellAnyCell(index) ==
    /\ userValues' = [userValues EXCEPT ![RowOf(index)][ColOf(index)] = 0]
    /\ possibleNumbers' = [possibleNumbers EXCEPT ![index] = {}]
    /\ UNCHANGED <<isCompleted, showErrors, statusText, timerInterval>>

\* clearCell: lines 584-594.
clearCell(index) ==
    IF puzzle[RowOf(index)][ColOf(index)] = 0
    THEN /\ userValues' = [userValues EXCEPT ![RowOf(index)][ColOf(index)] = 0]
         /\ possibleNumbers' = [possibleNumbers EXCEPT ![index] = {}]
         /\ UNCHANGED <<isCompleted, showErrors, statusText, timerInterval>>
    ELSE UNCHANGED editVars

\* A plausible slip: the candidates are toggled in the notes of the cell
\* instead of replacing them.
autoFillNotesToggled(values, notes, index) ==
    IF puzzle[RowOf(index)][ColOf(index)] # 0 \/ values[RowOf(index)][ColOf(index)] # 0
    THEN notes
    ELSE LET possible == autoFillPossible(values, RowOf(index), ColOf(index))
         IN  [notes EXCEPT ![index] = (@ \ possible) \cup (possible \ @)]

\* gameState.possibleNumbers as autoFillPossibleNumbers leaves it, given
\* userValues and the notes it finds: lines 605-630.
autoFillNotes(values, notes, index) ==
    IF puzzle[RowOf(index)][ColOf(index)] # 0 \/ values[RowOf(index)][ColOf(index)] # 0
    THEN notes
    ELSE [notes EXCEPT ![index] = autoFillPossible(values, RowOf(index), ColOf(index))]

\* autoFillPossibleNumbers: lines 600-633.
autoFillPossibleNumbers(index) ==
    /\ possibleNumbers' = autoFillNotes(userValues, possibleNumbers, index)
    /\ UNCHANGED <<userValues, isCompleted, showErrors, statusText, timerInterval>>

\* A plausible slip: only the row is tested for its last empty cell.
handleCellDoubleClickRowOnly(index) ==
    LET row == RowOf(index)
        col == ColOf(index)
    IN  IF puzzle[row][col] # 0 \/ userValues[row][col] # 0
        THEN UNCHANGED editVars
        ELSE IF /\ countEmptyCellsInRow(userValues, row) = 1
                /\ findFinalNumber(userValues, row, col) # null
        THEN setFinalValue(index, findFinalNumber(userValues, row, col))
        ELSE autoFillPossibleNumbers(index)

\* handleCellDoubleClick: lines 359-385.
handleCellDoubleClick(index) ==
    LET row == RowOf(index)
        col == ColOf(index)
        isLastInRow == countEmptyCellsInRow(userValues, row) = 1
        isLastInCol == countEmptyCellsInColumn(userValues, col) = 1
        isLastInSquare == countEmptyCellsInSquare(userValues, row, col) = 1
        finalNumber == findFinalNumber(userValues, row, col)
    IN  IF puzzle[row][col] # 0 \/ userValues[row][col] # 0
        THEN UNCHANGED editVars
        ELSE IF (isLastInRow \/ isLastInCol \/ isLastInSquare) /\ finalNumber # null
        THEN setFinalValue(index, finalNumber)
        ELSE autoFillPossibleNumbers(index)

-----------------------------------------------------------------------------
(* Spec: a session after page load, driven by the event handlers.          *)
(* The player clicks the cells of ClickCells (the empty cells 0, 4 and 10  *)
(* of the puzzle: 4 shares the row of 0 and 10 its box; and the clue cell  *)
(* 1) and presses the digit keys of Keys. Every handler runs to its end    *)
(* before the next event.                                                  *)

ClickCells == {0, 1, 4, 10}

FocusCells == {0, 4, 10}

KeyOrder == <<"5", "1", "2">>

Keys == {KeyOrder[k] : k \in 1..(IF NumKeys < Len(KeyOrder) THEN NumKeys ELSE Len(KeyOrder))}

ArrowKeys == {"ArrowUp", "ArrowDown", "ArrowLeft", "ArrowRight"}

\* parseInt(key) for the digit keys.
parseInt(key) ==
    CASE key = "1" -> 1 [] key = "2" -> 2 [] key = "3" -> 3 [] key = "4" -> 4
      [] key = "5" -> 5 [] key = "6" -> 6 [] key = "7" -> 7 [] key = "8" -> 8
      [] key = "9" -> 9

IsDigitKey(key) == key \in {"1", "2", "3", "4", "5", "6", "7", "8", "9"}

\* A session saved by an earlier visit and restored by loadGameState: the
\* low puzzle carved from SampleSolution, every empty cell but those of
\* FocusCells filled in with the solution's value.
SavedValues ==
    [r \in Rows |-> [c \in Cols |->
        IF (r * 9 + c) \in FocusCells THEN 0 ELSE SampleSolution[r][c]]]

\* Page load, lines 79-82: loadGameState restores the saved session, or
\* there is none and startNewGame makes a fresh one.
Init ==
    /\ pc = "play"
    /\ grid = EmptyGrid
    /\ stack = <<>>
    /\ ret = FALSE
    /\ rnd = 0
    /\ probe = null
    /\ storage = null
    /\ difficultySelect = "low"
    /\ solution = SampleSolution
    /\ puzzle = SamplePuzzle("low")
    /\ userValues \in {SavedValues, SamplePuzzle("low")}
    /\ possibleNumbers = EmptyNotes
    /\ selectedCell = null
    /\ difficulty = "low"
    /\ isCompleted = FALSE
    /\ showErrors = FALSE
    /\ statusText = ""
    /\ elapsedTime = 0
    /\ timerInterval = TRUE

notSession == <<grid, stack, ret, pc, rnd, probe, storage, difficultySelect>>

\* handleCellClick: lines 341-351.
CellClick(index) ==
    /\ selectedCell' = index
    /\ UNCHANGED <<puzzle, solution, userValues, possibleNumbers, difficulty,
                   isCompleted, showErrors, statusText, elapsedTime, timerInterval,
                   notSession>>

\* handleCellContextMenu: lines 478-483.
CellContextMenu(index) ==
    /\ selectedCell' = index
    /\ UNCHANGED <<puzzle, solution, userValues, possibleNumbers, difficulty,
                   isCompleted, showErrors, statusText, elapsedTime, timerInterval,
                   notSession>>

\* The cell an arrow key moves the selection to, or null: lines 499-508.
newSelectedCell(key, index) ==
    LET row == RowOf(index)
        col == ColOf(index)
    IN  IF key = "ArrowUp" /\ row > 0 THEN index - 9
        ELSE IF key = "ArrowDown" /\ row < 8 THEN index + 9
        ELSE IF key = "ArrowLeft" /\ col > 0 THEN index - 1
        ELSE IF key = "ArrowRight" /\ col < 8 THEN index + 1
        ELSE null

\* handleKeyDown: lines 489-539. asFinal is the value of the condition of
\* line 525 (the shift key, or the same key pressed within 300 ms): the shift
\* key alone makes it true and a slow press without it makes it false,
\* whatever lastKeyPress holds.
handleKeyDown(key, asFinal) ==
    IF selectedCell = null \/ isCompleted
    THEN UNCHANGED sessionVars
    ELSE IF newSelectedCell(key, selectedCell) # null
    THEN /\ selectedCell' = newSelectedCell(key, selectedCell)
         /\ UNCHANGED <<puzzle, solution, userValues, possibleNumbers, difficulty,
                        isCompleted, showErrors, statusText, elapsedTime,
                        timerInterval>>
    ELSE IF IsInitial(selectedCell)
    THEN UNCHANGED sessionVars
    ELSE /\ IF IsDigitKey(key)
            THEN IF asFinal
                 THEN setFinalValue(selectedCell, parseInt(key))
                 ELSE togglePossibleNumber(selectedCell, parseInt(key))
            ELSE IF key = "Delete" \/ key = "Backspace"
            THEN clearCell(selectedCell)
            ELSE UNCHANGED editVars
         /\ UNCHANGED <<puzzle, solution, selectedCell, difficulty, elapsedTime>>

\* A key is pressed. The arrow keys pressed are those that keep the
\* selection within ClickCells.
KeyDown(key, asFinal) ==
    /\ (selectedCell # null /\ key \in ArrowKeys)
          => newSelectedCell(key, selectedCell) \in ClickCells \cup {null}
    /\ handleKeyDown(key, asFinal)
    /\ UNCHANGED notSession

\* The dblclick listener of a cell: line 316.
CellDoubleClick(index) ==
    /\ handleCellDoubleClick(index)
    /\ UNCHANGED <<puzzle, solution, selectedCell, difficulty, elapsedTime, notSession>>

\* The context menu's auto-fill entry: lines 58-63. The menu is opened by
\* handleCellContextMenu, which selects the cell and tests nothing else.
MenuAutoFill ==
    /\ IF selectedCell # null
       THEN autoFillPossibleNumbers(selectedCell)
       ELSE UNCHANGED editVars
    /\ UNCHANGED <<puzzle, solution, selectedCell, difficulty, elapsedTime, notSession>>

\* The context menu's clear entry: lines 64-69.
MenuClearCell ==
    /\ IF selectedCell # null
       THEN clearCell(selectedCell)
       ELSE UNCHANGED editVars
    /\ UNCHANGED <<puzzle, solution, selectedCell, difficulty, elapsedTime, notSession>>

\* validateBoard: lines 689-702.
ValidateBoard ==
    /\ showErrors' = TRUE
    /\ statusText' = IF checkBoardState(userValues, solution).hasErrors
                     THEN "Incorrect" ELSE "AllCorrect"
    /\ UNCHANGED <<puzzle, solution, userValues, possibleNumbers, selectedCell,
                   difficulty, isCompleted, elapsedTime, timerInterval, notSession>>

\* clearAllNotes: lines 252-256.
ClearAllNotes ==
    /\ possibleNumbers' = EmptyNotes
    /\ UNCHANGED <<puzzle, solution, userValues, selectedCell, difficulty,
                   isCompleted, showErrors, statusText, elapsedTime, timerInterval,
                   notSession>>

\* A plausible slip: the completed flag is not reset.
ResetGameKeepsCompleted ==
    /\ userValues' = puzzle
    /\ possibleNumbers' = EmptyNotes
    /\ selectedCell' = null
    /\ showErrors' = FALSE
    /\ statusText' = ""
    /\ elapsedTime' = 0
    /\ timerInterval' = TRUE
    /\ UNCHANGED <<puzzle, solution, difficulty, isCompleted, notSession>>

\* resetGame: lines 233-247.
ResetGame ==
    /\ userValues' = puzzle
    /\ possibleNumbers' = EmptyNotes
    /\ selectedCell' = null
    /\ isCompleted' = FALSE
    /\ showErrors' = FALSE
    /\ statusText' = ""
    /\ elapsedTime' = 0
    /\ timerInterval' = TRUE
    /\ UNCHANGED <<puzzle, solution, difficulty, notSession>>

\* startNewGame: lines 209-228, with generateSolution and generatePuzzle
\* returning the sample outcome (SpecNewGame runs them step by step).
startNewGame ==
    /\ solution' = SampleSolution
    /\ puzzle' = SamplePuzzle(difficultySelect)
    /\ userValues' = SamplePuzzle(difficultySelect)
    /\ possibleNumbers' = EmptyNotes
    /\ selectedCell' = null
    /\ difficulty' = difficultySelect
    /\ isCompleted' = FALSE
    /\ showErrors' = FALSE
    /\ statusText' = ""
    /\ elapsedTime' = 0
    /\ timerInterval' = TRUE

\* startNewGame as the listener of the new-game button, line 49.
StartNewGame ==
    /\ startNewGame
    /\ UNCHANGED notSession

\* A plausible slip: the callback counts on whether or not the game is
\* completed, and no interval is ever cleared.
TimerTickUnguarded ==
    /\ elapsedTime < MaxElapsed
    /\ elapsedTime' = elapsedTime + 1
    /\ UNCHANGED <<puzzle, solution, userValues, possibleNumbers, selectedCell,
                   difficulty, isCompleted, showErrors, statusText, timerInterval,
                   notSession>>

\* The interval callback of startTimer, lines 729-734, run while an interval
\* is set; a period of time has passed since the last one.
TimerTick ==
    /\ timerInterval
    /\ elapsedTime < MaxElapsed
    /\ elapsedTime' = IF ~isCompleted THEN elapsedTime + 1 ELSE elapsedTime
    /\ UNCHANGED <<puzzle, solution, userValues, possibleNumbers, selectedCell,
                   difficulty, isCompleted, showErrors, statusText, timerInterval,
                   notSession>>

Next ==
    \/ \E index \in ClickCells : CellClick(index)
    \/ \E index \in ClickCells : CellContextMenu(index)
    \/ \E index \in ClickCells : CellDoubleClick(index)
    \/ \E key \in Keys \cup ArrowKeys \cup {"Delete", "Backspace"}, asFinal \in BOOLEAN :
          KeyDown(key, asFinal)
    \/ MenuAutoFill
    \/ MenuClearCell
    \/ ValidateBoard
    \/ ClearAllNotes
    \/ ResetGame
    \/ StartNewGame
    \/ TimerTick

Spec == Init /\ [][Next]_vars

-----------------------------------------------------------------------------
(* SpecStorage: a session, the record saveGameState leaves in localStorage  *)
(* at the end of a handler, and the page loaded again from that record.     *)
(* The item is the text JSON.stringify makes; the model holds it as the     *)
(* JSON value the text denotes: arrays are sequences counted from 1, where  *)
(* the grids of the session are functions on 0..8 and the notes are sets.   *)

\* The orders in which a Set's iteration lists the notes of a cell. A Set
\* iterates in insertion order, which the sets of the model do not keep: the
\* array lists the notes as one of these orders runs through them.
NoteOrders == {<<1, 2, 3, 4, 5, 6, 7, 8, 9>>, <<9, 8, 7, 6, 5, 4, 3, 2, 1>>}

\* Array.from(set), line 765.
arrayFrom(set, order) ==
    LET has(d) == d \in set
    IN  SelectSeq(order, has)

\* A grid as the array of arrays JSON holds.
toArray(g) == [r \in 1..9 |-> [c \in 1..9 |-> g[r - 1][c - 1]]]

\* A plausible slip: the puzzle is saved in the place of userValues.
stateToSavePuzzleAsValues(order) ==
    [puzzle |-> toArray(puzzle),
     solution |-> toArray(solution),
     userValues |-> toArray(puzzle),
     possibleNumbers |-> [i \in 1..81 |-> arrayFrom(possibleNumbers[i - 1], order)],
     selectedCell |-> selectedCell,
     difficulty |-> difficulty,
     elapsedTime |-> elapsedTime,
     isCompleted |-> isCompleted,
     showErrors |-> showErrors]

\* stateToSave of saveGameState: lines 761-771.
stateToSave(order) ==
    [puzzle |-> toArray(puzzle),
     solution |-> toArray(solution),
     userValues |-> toArray(userValues),
     possibleNumbers |-> [i \in 1..81 |-> arrayFrom(possibleNumbers[i - 1], order)],
     selectedCell |-> selectedCell,
     difficulty |-> difficulty,
     elapsedTime |-> elapsedTime,
     isCompleted |-> isCompleted,
     showErrors |-> showErrors]

\* saveGameState, lines 760-778, as the last call of the handler that ran
\* last before the page is left.
SaveGameState(order) ==
    /\ pc = "play"
    /\ storage' = stateToSave(order)
    /\ pc' = "saved"
    /\ UNCHANGED <<grid, stack, ret, rnd, probe, difficultySelect, sessionVars>>

\* The grid an array of arrays of the record denotes.
fromArray(a) == [r \in Rows |-> [c \in Cols |-> a[r + 1][c + 1]]]

\* new Set(arr), line 794.
newSet(arr) == {arr[k] : k \in 1..Len(arr)}

\* The page is loaded again and loadGameState, lines 784-819, finds the
\* record: gameState is overwritten from it, the status element of the new
\* page is empty unless the game was completed, and the timer is started
\* unless it was.
LoadGameState ==
    /\ pc = "saved"
    /\ puzzle' = fromArray(storage.puzzle)
    /\ solution' = fromArray(storage.solution)
    /\ userValues' = fromArray(storage.userValues)
    /\ possibleNumbers' = [i \in Indices |-> newSet(storage.possibleNumbers[i + 1])]
    /\ selectedCell' = storage.selectedCell
    /\ difficulty' = storage.difficulty
    /\ elapsedTime' = storage.elapsedTime
    /\ isCompleted' = storage.isCompleted
    /\ showErrors' = storage.showErrors
    /\ difficultySelect' = storage.difficulty
    /\ statusText' = IF storage.isCompleted THEN "Completed" ELSE ""
    /\ timerInterval' = ~storage.isCompleted
    /\ pc' = "loaded"
    /\ UNCHANGED <<grid, stack, ret, rnd, probe, storage>>

NextStorage ==
    \/ pc = "play" /\ Next
    \/ \E order \in NoteOrders : SaveGameState(order)
    \/ LoadGameState

SpecStorage == Init /\ [][NextStorage]_vars

-----------------------------------------------------------------------------
(* SpecLoad: the page is loaded over whatever localStorage holds under the *)
(* key. storage is the item found there: no item, a text JSON.parse        *)
(* rejects, or the JSON value of a record, which may lack fields. A field   *)
(* the record lacks reads as undefined; gameState holds <<>> for an         *)
(* undefined grid. The load is followed by the two operations of a session  *)
(* that need no cell: the timer's tick and the reset.                       *)

\* The fields of the record saveGameState writes: lines 761-771.
savedRecord(diff, values, notes, sel, elapsed, completed, errors) ==
    [puzzle |-> toArray(SamplePuzzle(diff)),
     solution |-> toArray(SampleSolution),
     userValues |-> toArray(values),
     possibleNumbers |-> [i \in 1..81 |-> IF i - 1 \in DOMAIN notes THEN notes[i - 1] ELSE <<>>],
     selectedCell |-> sel,
     difficulty |-> diff,
     elapsedTime |-> elapsed,
     isCompleted |-> completed,
     showErrors |-> errors]

\* Records of sessions the program saves: a fresh one, one in the middle of
\* a game with notes in cell 4 and cell 0 selected, validated or not, and a
\* completed one.
SavedRecords ==
    UNION {
        {savedRecord(diff, SamplePuzzle(diff), <<>>, null, elapsed, FALSE, FALSE),
         savedRecord(diff, SavedValues, [i \in {4} |-> <<2, 7>>], 0, elapsed, FALSE, FALSE),
         savedRecord(diff, SavedValues, [i \in {4} |-> <<2, 7>>], 0, elapsed, FALSE, TRUE),
         savedRecord(diff, SampleSolution, <<>>, 0, elapsed, TRUE, TRUE)}
        : diff \in DifficultyKeys, elapsed \in 0..MaxElapsed}

\* What has happened to a record since it was saved: nothing, or fields were
\* lost, or the array of notes was emptied.
Defects ==
    {"none", "noFlags", "noPossibleNumbers", "noPuzzle", "noSolution", "noNotes"}

without(rec, fields) == [f \in (DOMAIN rec) \ fields |-> rec[f]]

damaged(rec, defect) ==
    CASE defect = "none" -> rec
      [] defect = "noFlags" -> without(rec, {"elapsedTime", "isCompleted", "showErrors"})
      [] defect = "noPossibleNumbers" -> without(rec, {"possibleNumbers"})
      [] defect = "noPuzzle" -> without(rec, {"puzzle"})
      [] defect = "noSolution" -> without(rec, {"solution"})
      [] defect = "noNotes" -> [rec EXCEPT !.possibleNumbers = <<>>]

\* localStorage.getItem(STORAGE_KEY), line 786, and what JSON.parse makes of
\* it, line 789.
StoredItems ==
    {[text |-> "absent"], [text |-> "unparsable"]}
    \cup {[text |-> "json", value |-> damaged(rec, defect)] :
             rec \in SavedRecords, defect \in Defects}

\* parsed.elapsedTime || 0, parsed.isCompleted || false and
\* parsed.showErrors || false: lines 797-799.
elapsedTimeOf(parsed) ==
    IF "elapsedTime" \in DOMAIN parsed THEN parsed.elapsedTime ELSE 0

flagOf(parsed, field) ==
    IF field \in DOMAIN parsed THEN parsed[field] ELSE FALSE

\* parsed.possibleNumbers.map(arr => new Set(arr)) throws a TypeError when
\* the record has no possibleNumbers: line 794.
mapThrows(parsed) == "possibleNumbers" \notin DOMAIN parsed

\* renderBoard, lines 261-270, throws a TypeError in createCellElement,
\* lines 284-304: on gameState.puzzle[row] or gameState.userValues[row] of an
\* undefined grid; on possibleNums.size of an empty cell that has no set of
\* notes; on gameState.solution[row] of an undefined solution, which is read
\* only for a value of the user while showErrors is true.
renderBoardThrows(parsed) ==
    \/ "puzzle" \notin DOMAIN parsed
    \/ "userValues" \notin DOMAIN parsed
    \/ \E index \in Indices :
          /\ fromArray(parsed.puzzle)[RowOf(index)][ColOf(index)] = 0
          /\ LET userValue == fromArray(parsed.userValues)[RowOf(index)][ColOf(index)]
             IN  IF userValue = 0
                 THEN index + 1 > Len(parsed.possibleNumbers)
                 ELSE flagOf(parsed, "showErrors") /\ "solution" \notin DOMAIN parsed

\* A grid of the record, or <<>> where the record has none.
gridOf(parsed, field) ==
    IF field \in DOMAIN parsed THEN fromArray(parsed[field]) ELSE <<>>

InitLoad ==
    /\ pc = "boot"
    /\ grid = EmptyGrid
    /\ stack = <<>>
    /\ ret = FALSE
    /\ rnd = 0
    /\ probe = null
    /\ difficultySelect = "low"
    /\ InitialGameState
    /\ storage \in StoredItems

\* loadGameState, lines 784-819, called at line 80. It returns false at line
\* 787 when there is no item and from the catch at lines 815-818 when
\* JSON.parse, the map of line 794 or renderBoard throws; what was assigned
\* before the throw stays assigned. pc = "noGame" is the false result.
LoadStoredItem ==
    /\ pc = "boot"
    /\ IF storage.text # "json"
       THEN /\ pc' = "noGame"
            /\ UNCHANGED <<sessionVars, difficultySelect>>
       ELSE LET parsed == storage.value
            IN  /\ puzzle' = gridOf(parsed, "puzzle")
                /\ solution' = gridOf(parsed, "solution")
                /\ userValues' = gridOf(parsed, "userValues")
                /\ IF mapThrows(parsed)
                   THEN /\ pc' = "noGame"
                        /\ UNCHANGED <<possibleNumbers, selectedCell, difficulty,
                                       elapsedTime, isCompleted, showErrors,
                                       difficultySelect, statusText, timerInterval>>
                   ELSE /\ possibleNumbers' =
                              [i \in 0..(Len(parsed.possibleNumbers) - 1) |->
                                  newSet(parsed.possibleNumbers[i + 1])]
                        /\ selectedCell' = parsed.selectedCell
                        /\ difficulty' = parsed.difficulty
                        /\ elapsedTime' = elapsedTimeOf(parsed)
                        /\ isCompleted' = flagOf(parsed, "isCompleted")
                        /\ showErrors' = flagOf(parsed, "showErrors")
                        /\ difficultySelect' = parsed.difficulty
                        /\ statusText' = IF flagOf(parsed, "isCompleted")
                                         THEN "Completed" ELSE statusText
                        /\ IF renderBoardThrows(parsed)
                           THEN /\ pc' = "noGame"
                                /\ UNCHANGED timerInterval
                           ELSE /\ pc' = "play"
                                /\ timerInterval' = ~flagOf(parsed, "isCompleted")
    /\ UNCHANGED <<grid, stack, ret, rnd, probe, storage>>

\* The false result makes the handler call startNewGame: lines 80-82.
StartNewGameAfterLoad ==
    /\ pc = "noGame"
    /\ startNewGame
    /\ pc' = "play"
    /\ UNCHANGED <<grid, stack, ret, rnd, probe, storage, difficultySelect>>

NextLoad ==
    \/ LoadStoredItem
    \/ StartNewGameAfterLoad
    \/ pc = "play" /\ TimerTick
    \/ pc = "play" /\ ResetGame

SpecLoad == InitLoad /\ [][NextLoad]_vars

-----------------------------------------------------------------------------
(* The properties checked. The units of the board are stated here on their *)
(* own, by cell index, not through the code's loops.                       *)

At(g, index) == g[index \div 9][index % 9]

RowCells(row) == {i \in Indices : i \div 9 = row}
ColCells(col) == {i \in Indices : i % 9 = col}
BoxCells(row, col) ==
    {i \in Indices : (i \div 9) \div 3 = row \div 3 /\ (i % 9) \div 3 = col \div 3}

AllUnits ==
    {RowCells(r) : r \in Rows} \cup {ColCells(c) : c \in Cols}
        \cup {BoxCells(3 * br, 3 * bc) : br \in 0..2, bc \in 0..2}

PeerCells(row, col) == RowCells(row) \cup ColCells(col) \cup BoxCells(row, col)

Occurs(g, cells, num) == \E i \in cells : At(g, i) = num

CandidateSet(g, row, col) ==
    {d \in Digits : ~Occurs(g, PeerCells(row, col), d)}

ZeroCells(g) == {i \in Indices : At(g, i) = 0}

IsSolvedGrid(g) == \A unit \in AllUnits : {At(g, i) : i \in unit} = Digits

\* C1: every grid generateSolution returns has no 0 cell and has each row,
\* each column and each 3x3 box equal to {1..9}; so has the solution
\* startNewGame stores.
C1_GeneratedSolutionIsValid ==
    /\ pc = "done" => (ZeroCells(grid) = {} /\ IsSolvedGrid(grid))
    /\ pc = "play" => (ZeroCells(solution) = {} /\ IsSolvedGrid(solution))

\* generateSolution has returned a grid that fillGrid reported filled.
C1_Witness == pc = "done" /\ ret = TRUE /\ stack = <<>> /\ At(grid, 80) # 0

\* C2: the puzzle generatePuzzle returns has exactly 30, 45 or 55 zero cells
\* for low, medium or high, and every other cell of it equals the solution's.
C2_PuzzleCarved ==
    pc = "play" =>
        /\ Cardinality(ZeroCells(puzzle)) =
              (CASE difficultySelect = "low" -> 30
                 [] difficultySelect = "medium" -> 45
                 [] difficultySelect = "high" -> 55)
        /\ \A i \in Indices : At(puzzle, i) # 0 => At(puzzle, i) = At(solution, i)

\* A high puzzle has been carved from a generated solution.
C2_Witness ==
    /\ pc = "play"
    /\ difficultySelect = "high"
    /\ Cardinality(ZeroCells(puzzle)) = 55
    /\ IsSolvedGrid(solution)

\* C9: isValidPlacement(grid, row, col, num) is false if and only if num
\* occurs in some cell of the row, of the column or of the 3x3 box of
\* (row, col).
C9_IsValidPlacementIff ==
    (pc = "engine" /\ probe.row # null) =>
        \A num \in Digits :
            (num \notin probe.valid)
                <=> Occurs(grid, PeerCells(probe.row, probe.col), num)

\* A number was refused that occurs in the cell's box only, and another
\* number was accepted.
C9_Witness ==
    /\ pc = "engine"
    /\ probe.row # null
    /\ probe.valid # {}
    /\ \E num \in Digits \ probe.valid :
          /\ ~Occurs(grid, RowCells(probe.row) \cup ColCells(probe.col), num)
          /\ Occurs(grid, BoxCells(probe.row, probe.col), num)

\* C10: the candidate set computed for a cell (by auto-fill and by
\* findFinalNumber) is the set of digits that occur in no cell of the cell's
\* row, column or box: all of 1..9 on the all-zero grid, and never a value
\* that is present in the row, column or box.
C10_CandidateSet ==
    (pc = "engine" /\ probe.row # null) =>
        /\ probe.autoFill = CandidateSet(grid, probe.row, probe.col)
        /\ probe.finalPossible = CandidateSet(grid, probe.row, probe.col)
        /\ grid = EmptyGrid => probe.autoFill = Digits /\ probe.finalPossible = Digits
        /\ \A i \in PeerCells(probe.row, probe.col) :
              At(grid, i) \notin (probe.autoFill \cup probe.finalPossible)

\* A value present in the cell's column only is absent from the candidates
\* computed, and some candidate is left.
C10_Witness ==
    /\ pc = "engine"
    /\ probe.row # null
    /\ probe.autoFill # {}
    /\ \E v \in Digits \ probe.autoFill :
          /\ Occurs(grid, ColCells(probe.col), v)
          /\ ~Occurs(grid, RowCells(probe.row) \cup BoxCells(probe.row, probe.col), v)

\* C16: fillGrid started on the all-zero grid terminates for every sequence
\* of shuffle outcomes and returns true with no empty cell left: the top-level
\* call never returns false, so generateSolution never returns a partly
\* filled grid.
C16_FillGridTerminates ==
    /\ <>(pc = "done")
    /\ [](pc = "done" => (ret = TRUE /\ stack = <<>> /\ ZeroCells(grid) = {}))

\* The top-level call has returned true on a grid with no empty cell.
C16_Witness ==
    /\ pc = "done"
    /\ stack = <<>>
    /\ ret = TRUE
    /\ grid # EmptyGrid
    /\ ZeroCells(grid) = {}

-----------------------------------------------------------------------------
(* The properties of the session (Spec).                                   *)

AllFilled(values) == ZeroCells(values) = {}

AllCorrect(values) == \A i \in Indices : At(values, i) = At(solution, i)

DigitKeys == {"1", "2", "3", "4", "5", "6", "7", "8", "9"}

\* The step is a set value: a digit key entered as a final value on an
\* editable cell, or a double-activation that put a value into its cell.
SetValueStep ==
    \/ /\ selectedCell # null
       /\ ~isCompleted
       /\ ~IsInitial(selectedCell)
       /\ \E key \in DigitKeys : KeyDown(key, TRUE)
    \/ \E index \in ClickCells :
          /\ At(userValues, index) = 0
          /\ CellDoubleClick(index)
          /\ At(userValues', index) # 0

\* The cell is the only empty cell of its row, of its column or of its box.
SoleEmptyInAUnit(values, index) ==
    \E unit \in {RowCells(RowOf(index)), ColCells(ColOf(index)),
                 BoxCells(RowOf(index), ColOf(index))} :
        unit \cap ZeroCells(values) = {index}

\* C3: double-activation on a non-initial, unset cell: if the cell is the
\* only empty cell of its row, column or box and exactly one digit is absent
\* from its row, column and box, that digit becomes its value (a set value:
\* notes cleared, completion checked); in every other case the value stays 0
\* and the notes become the candidate set.
C3_DoubleActivation ==
    [][\A index \in ClickCells :
          (CellDoubleClick(index) /\ ~IsInitial(index) /\ At(userValues, index) = 0) =>
              LET cands == CandidateSet(userValues, RowOf(index), ColOf(index))
              IN  IF SoleEmptyInAUnit(userValues, index) /\ Cardinality(cands) = 1
                  THEN /\ \A d \in cands :
                             userValues' =
                                [userValues EXCEPT ![RowOf(index)][ColOf(index)] = d]
                       /\ possibleNumbers' = [possibleNumbers EXCEPT ![index] = {}]
                       /\ AllFilled(userValues') =>
                             (showErrors' /\ (AllCorrect(userValues') => isCompleted'))
                  ELSE /\ userValues' = userValues
                       /\ possibleNumbers' = [possibleNumbers EXCEPT ![index] = cands]
    ]_vars

\* No cell has been selected since the session was loaded, so no key has
\* been handled, and the empty cell 0 has received its forced value: a
\* double-activation has set it, and its notes are empty.
C3_Witness ==
    /\ pc = "play"
    /\ selectedCell = null
    /\ At(puzzle, 0) = 0
    /\ At(userValues, 0) = At(solution, 0)
    /\ possibleNumbers[0] = {}

\* C4: after any set value that leaves every cell of userValues non-zero and
\* equal to the solution, completed and showErrors are true.
C4_SolvedBoardCompletes ==
    [][(SetValueStep /\ AllFilled(userValues') /\ AllCorrect(userValues'))
          => (isCompleted' /\ showErrors')]_vars

\* The board is solved and the session is marked completed.
C4_Witness ==
    /\ pc = "play"
    /\ AllFilled(userValues)
    /\ AllCorrect(userValues)
    /\ isCompleted
    /\ showErrors
    /\ statusText = "Completed"

\* C5: after any set value that leaves every cell non-zero with at least one
\* cell different from the solution, showErrors is true, completed is false
\* and the status reported is "incorrect".
C5_FilledIncorrectBoard ==
    [][(SetValueStep /\ AllFilled(userValues') /\ ~AllCorrect(userValues'))
          => (showErrors' /\ ~isCompleted' /\ statusText' = "Incorrect")]_vars

\* The board is filled with a wrong value in it, and reported incorrect.
C5_Witness ==
    /\ pc = "play"
    /\ AllFilled(userValues)
    /\ ~AllCorrect(userValues)
    /\ showErrors
    /\ ~isCompleted
    /\ statusText = "Incorrect"

\* C6: no cell has both a non-zero userValues entry and a non-empty set of
\* notes.
C6_ValueExcludesNotes ==
    pc = "play" =>
        \A i \in Indices : At(userValues, i) # 0 => possibleNumbers[i] = {}

\* A cell that held notes has been given a value while another holds notes.
C6_Witness ==
    /\ pc = "play"
    /\ \E i \in FocusCells : At(userValues, i) # 0
    /\ \E j \in FocusCells : possibleNumbers[j] # {}

\* An edit aimed at a clue cell: a digit or a clearing key with the clue cell
\* selected, a context-menu entry with it selected, or a double-activation
\* of it.
EditOfInitialCell ==
    \/ /\ selectedCell # null
       /\ IsInitial(selectedCell)
       /\ \/ \E key \in DigitKeys \cup {"Delete", "Backspace"}, asFinal \in BOOLEAN :
                KeyDown(key, asFinal)
          \/ MenuAutoFill
          \/ MenuClearCell
    \/ \E index \in ClickCells : IsInitial(index) /\ CellDoubleClick(index)

\* C7: set value, toggle candidate, clear cell, auto-fill and
\* double-activation aimed at an initial cell change none of userValues, the
\* notes, completed and showErrors; so userValues equals puzzle at every clue
\* cell in every reachable state.
C7_InitialCellsNotEdited ==
    /\ [](pc = "play" =>
            \A i \in Indices : At(puzzle, i) # 0 => At(userValues, i) = At(puzzle, i))
    /\ [][EditOfInitialCell =>
            UNCHANGED <<userValues, possibleNumbers, isCompleted, showErrors>>]_vars

\* The clue cell is selected in a session the player has edited, with every
\* clue still in place.
C7_Witness ==
    /\ pc = "play"
    /\ selectedCell # null
    /\ IsInitial(selectedCell)
    /\ userValues # puzzle
    /\ \E j \in FocusCells : possibleNumbers[j] # {}
    /\ At(userValues, selectedCell) = At(puzzle, selectedCell)

\* An edit: a key press, a context-menu entry or a double-activation.
EditStep ==
    \/ \E key \in DigitKeys \cup {"Delete", "Backspace"}, asFinal \in BOOLEAN :
          KeyDown(key, asFinal)
    \/ MenuAutoFill
    \/ MenuClearCell
    \/ \E index \in ClickCells : CellDoubleClick(index)

\* C8: once completed is true, set value, toggle candidate, clear cell (by
\* key or by the context menu), auto-fill and double-activation leave
\* userValues and the notes unchanged.
C8_NoEditOnceCompleted ==
    [][(isCompleted /\ EditStep) => UNCHANGED <<userValues, possibleNumbers>>]_vars

\* C12: auto-fill is idempotent: once auto-fill has been applied to a
\* non-initial, unset cell, whatever notes the cell held before, a second
\* application with userValues unchanged leaves the cell with the same notes.
C12_AutoFillIdempotent ==
    [][\A index \in ClickCells :
          (/\ selectedCell = index
           /\ ~IsInitial(index)
           /\ At(userValues, index) = 0
           /\ MenuAutoFill)
          => autoFillNotes(userValues', possibleNumbers', index) = possibleNumbers'
    ]_vars

\* The selected unset cell holds its two candidates as notes, which no single
\* key press leaves: auto-fill has filled them in.
C12_Witness ==
    /\ pc = "play"
    /\ selectedCell \in FocusCells
    /\ At(userValues, selectedCell) = 0
    /\ Cardinality(possibleNumbers[selectedCell]) = 2
    /\ possibleNumbers[selectedCell] =
          CandidateSet(userValues, RowOf(selectedCell), ColOf(selectedCell))

\* Some non-initial cell holds a value that is not the solution's.
HasWrongEntry ==
    \E i \in Indices :
        /\ ~IsInitial(i)
        /\ At(userValues, i) # 0
        /\ At(userValues, i) # At(solution, i)

\* C13: manual validate, in any state and on a board filled or not, sets
\* showErrors and reports "incorrect" if and only if some non-initial cell
\* with a non-zero value differs from the solution; it leaves userValues, the
\* notes and completed unchanged.
C13_ValidateReportsWrongEntries ==
    [][ValidateBoard =>
          /\ showErrors'
          /\ (statusText' = "Incorrect") <=> HasWrongEntry
          /\ statusText' \in {"Incorrect", "AllCorrect"}
          /\ UNCHANGED <<userValues, possibleNumbers, isCompleted>>
    ]_vars

\* Validate has reported a board that is not filled and holds a right value
\* entered by the player as having no wrong entry.
C13_Witness ==
    /\ pc = "play"
    /\ statusText = "AllCorrect"
    /\ showErrors
    /\ ~AllFilled(userValues)
    /\ ~HasWrongEntry
    /\ \E i \in FocusCells : At(userValues, i) # 0

\* C14: in every state where completed is true a timer tick is a no-op: it
\* leaves elapsedTime and every other session field unchanged, and so, however
\* ticks interleave with user actions, elapsedTime does not change while the
\* session stays completed.
C14_NoTickOnceCompleted ==
    [][/\ (isCompleted /\ TimerTick) => UNCHANGED sessionVars
       /\ (isCompleted /\ isCompleted') => elapsedTime' = elapsedTime
    ]_vars

\* Time had been counted when the game was completed, and the interval was
\* cleared.
C14_Witness ==
    /\ pc = "play"
    /\ isCompleted
    /\ elapsedTime > 0
    /\ ~timerInterval

\* C15: whenever completed is true, every cell of userValues is non-zero and
\* equals the corresponding solution cell, under any sequence of key,
\* double-activation, context-menu, validate and clear-notes actions.
C15_CompletedImpliesSolved ==
    (pc = "play" /\ isCompleted) => (AllFilled(userValues) /\ AllCorrect(userValues))

\* Every value on the board is the solution's.
ErrorFree(values) ==
    \A i \in Indices : At(values, i) # 0 => At(values, i) = At(solution, i)

\* C17: if every non-zero userValues entry equals the solution at its cell,
\* a double-activation that sets a forced value sets the solution's value for
\* that cell.
C17_ForcedValueIsSolution ==
    [][\A index \in ClickCells :
          (/\ At(userValues, index) = 0
           /\ At(userValues', index) # 0
           /\ CellDoubleClick(index)
           /\ ErrorFree(userValues))
          => At(userValues', index) = At(solution, index)
    ]_vars

\* No cell has been selected, so no key has been handled: double-activations
\* alone have filled the empty cells 4 and 10, and the board has no error.
C17_Witness ==
    /\ pc = "play"
    /\ selectedCell = null
    /\ At(puzzle, 4) = 0 /\ At(userValues, 4) # 0
    /\ At(puzzle, 10) = 0 /\ At(userValues, 10) # 0
    /\ ErrorFree(userValues)

\* A digit key is handled with an editable cell selected in a session that
\* is not completed.
EditableSelected ==
    /\ selectedCell # null
    /\ ~isCompleted
    /\ ~IsInitial(selectedCell)

\* C18: toggle candidate n on a non-initial cell of a session not completed:
\* a non-zero value of the cell becomes 0; n leaves the notes of the cell if
\* it was among them and joins them if it was not; no other cell's value or
\* notes change, and completed and showErrors are unchanged.
C18_ToggleCandidate ==
    [][\A key \in DigitKeys :
          (EditableSelected /\ KeyDown(key, FALSE)) =>
              /\ userValues' =
                    [userValues EXCEPT ![RowOf(selectedCell)][ColOf(selectedCell)] = 0]
              /\ possibleNumbers' =
                    [possibleNumbers EXCEPT ![selectedCell] =
                        IF parseInt(key) \in @ THEN @ \ {parseInt(key)}
                        ELSE @ \cup {parseInt(key)}]
              /\ UNCHANGED <<isCompleted, showErrors>>
    ]_vars

\* The selected unset cell holds a note that is not one of its candidates:
\* a key has toggled it in.
C18_Witness ==
    /\ pc = "play"
    /\ selectedCell \in FocusCells
    /\ At(userValues, selectedCell) = 0
    /\ possibleNumbers[selectedCell] # {}
    /\ possibleNumbers[selectedCell] \cap
          CandidateSet(userValues, RowOf(selectedCell), ColOf(selectedCell)) = {}

\* C19: set value n on a non-initial cell sets that cell's userValues entry
\* to n and empties that cell's notes, and changes no other cell's value or
\* notes: the notes of the cells of the same row, column or box are not
\* recomputed.
C19_SetValueFrame ==
    [][\A key \in DigitKeys :
          (EditableSelected /\ KeyDown(key, TRUE)) =>
              /\ userValues' =
                    [userValues EXCEPT
                        ![RowOf(selectedCell)][ColOf(selectedCell)] = parseInt(key)]
              /\ possibleNumbers' = [possibleNumbers EXCEPT ![selectedCell] = {}]
    ]_vars

\* The selected cell holds a value that a cell of its row, column or box
\* still has among its notes.
C19_Witness ==
    /\ pc = "play"
    /\ selectedCell \in FocusCells
    /\ At(userValues, selectedCell) # 0
    /\ \E j \in FocusCells \ {selectedCell} :
          /\ j \in PeerCells(RowOf(selectedCell), ColOf(selectedCell))
          /\ At(userValues, selectedCell) \in possibleNumbers[j]

\* C20: in every reachable state in which all 81 cells of userValues are
\* non-zero, showErrors is true.
C20_FilledBoardShowsErrors ==
    (pc = "play" /\ AllFilled(userValues)) => showErrors

\* The board is filled and solved, validate has been asked for since, and
\* the errors are shown.
C20_Witness ==
    /\ pc = "play"
    /\ AllFilled(userValues)
    /\ isCompleted
    /\ statusText = "AllCorrect"
    /\ showErrors

\* C21: a set value after which at least one cell of userValues is still 0
\* leaves showErrors and completed unchanged and reports no status.
C21_SetValueOnUnfilledBoard ==
    [][(SetValueStep /\ ~AllFilled(userValues'))
          => UNCHANGED <<showErrors, isCompleted, statusText>>]_vars

\* The selected cell has been given a value on a board that is not filled,
\* and no error is shown and no status reported.
C21_Witness ==
    /\ pc = "play"
    /\ selectedCell \in FocusCells
    /\ At(userValues, selectedCell) # 0
    /\ ~AllFilled(userValues)
    /\ ~showErrors
    /\ ~isCompleted
    /\ statusText = ""

-----------------------------------------------------------------------------
(* The properties of the saved record (SpecStorage).                       *)

\* C11: saving a session state and then loading the saved record reproduces
\* the same puzzle, solution and userValues grids and, for every cell index
\* 0..80, the same set of notes.
C11_SaveLoadRoundTrip ==
    [][LoadGameState =>
          /\ puzzle' = puzzle
          /\ solution' = solution
          /\ userValues' = userValues
          /\ \A i \in Indices : possibleNumbers'[i] = possibleNumbers[i]
    ]_vars

\* A session with a value entered and a cell of two notes has been loaded
\* from a record that lists those notes in descending order.
C11_Witness ==
    /\ pc = "loaded"
    /\ userValues # puzzle
    /\ \E i \in FocusCells :
          /\ Cardinality(possibleNumbers[i]) = 2
          /\ storage.possibleNumbers[i + 1][1] > storage.possibleNumbers[i + 1][2]

-----------------------------------------------------------------------------
(* The properties of the page load (SpecLoad).                             *)

\* C22: reset, from any reachable state, a completed one included, sets
\* userValues equal to puzzle, empties all 81 sets of notes, sets completed
\* and showErrors to false, elapsedTime to 0 and selectedCell to null, and
\* leaves puzzle and solution unchanged.
C22_ResetRestoresPuzzle ==
    [][ResetGame =>
          /\ userValues' = puzzle
          /\ \A i \in Indices : possibleNumbers'[i] = {}
          /\ ~isCompleted'
          /\ ~showErrors'
          /\ elapsedTime' = 0
          /\ selectedCell' = null
          /\ UNCHANGED <<puzzle, solution>>
    ]_vars

\* A completed session with time on its clock was restored from its record,
\* and a reset has made it a running game on the bare puzzle again: nothing
\* else takes the completed flag or the time back.
C22_Witness ==
    /\ pc = "play"
    /\ storage.text = "json"
    /\ DOMAIN storage.value = DOMAIN CHOOSE rec \in SavedRecords : TRUE
    /\ storage.value.isCompleted
    /\ storage.value.elapsedTime > 0
    /\ userValues = puzzle
    /\ userValues # SampleSolution
    /\ possibleNumbers = EmptyNotes
    /\ selectedCell = null
    /\ ~isCompleted
    /\ ~showErrors
    /\ elapsedTime = 0

\* The four fields loadGameState cannot do without; elapsedTime, isCompleted
\* and showErrors have defaults.
RequiredFields == {"puzzle", "solution", "userValues", "possibleNumbers"}

Malformed(parsed) ==
    \/ ~(RequiredFields \subseteq DOMAIN parsed)
    \/ Len(parsed.possibleNumbers) # 81

NoSavedState(item) ==
    IF item.text = "json" THEN Malformed(item.value) ELSE TRUE

\* The session startNewGame makes on a page nothing was restored to.
FreshSession ==
    /\ userValues = puzzle
    /\ possibleNumbers = EmptyNotes
    /\ ~isCompleted
    /\ ~showErrors
    /\ elapsedTime = 0
    /\ selectedCell = null
    /\ difficulty = "low"
    /\ difficultySelect = "low"

\* The load of an absent, unparsable or malformed record reports failure.
BadRecordIsRefused ==
    [][(LoadStoredItem /\ NoSavedState(storage)) => pc' = "noGame"]_vars

\* The session started after a failed load has nothing of the record.
NothingSurvivesRefusal ==
    [][StartNewGameAfterLoad => FreshSession']_vars

\* C23: a stored record that is absent, unparsable or malformed is treated
\* as no saved state: the load reports failure, and the initialisation then
\* yields a fresh session (userValues equal to the new puzzle, all notes
\* empty, completed false, showErrors false, elapsedTime 0) in which no field
\* of the bad record survives.
C23_BadRecordIsNoSavedState ==
    [][/\ (LoadStoredItem /\ NoSavedState(storage)) => pc' = "noGame"
       /\ StartNewGameAfterLoad => FreshSession'
    ]_vars

=============================================================================
